---- MODULE Spec2Model ----
(***************************************************************************)
(* EchoLoop: the recorder screen (app/(tabs)/explore.tsx, component        *)
(* Explore), the simple toggle screen (component App) and the pure         *)
(* function formatMillis.                                                  *)
(*                                                                         *)
(* The recorder screen is a React component: its useState cells are the    *)
(* variables isRecording .. loadingPlay, its two useRef cells are          *)
(* recordingRef and playbackRef.  Every async function call is a record in *)
(* `calls`; each `await` is a suspension point, so one call is several     *)
(* actions: the synchronous part up to the first await, then one action    *)
(* per resolution (or rejection) of the awaited platform promise, each     *)
(* running the code up to the next await (catch and finally included).     *)
(* expo-av and the operating system are not part of the repository: every  *)
(* platform promise may resolve or reject.                                 *)
(***************************************************************************)
EXTENDS Integers, Sequences, FiniteSets, TLC

\* ---------------------------------------------------------------- bounds
\* startRecording calls and playRecording calls over a run, calls in flight
\* at once, status callbacks of one recorder, seconds formatted, toggles
MaxStart == 2
MaxPlay == 2
MaxInFlight == 2
MaxDur == 2
MaxSec == 601
MaxToggles == 12

\* ------------------------------------------------------------- constants
NoHandle == 0
NoUri == 0

CallIds == 1..MaxInFlight
RecIds == 1..MaxStart
SndIds == 1..MaxPlay
AlertKinds == {"none", "perm", "start", "stop", "play"}
IgnoreReasons == {"none", "noHandle", "noFile", "busy"}

VARIABLES
  \* recorder screen: useState cells
  isRecording, isPreparing, recordingUri, recordingDurationMillis,
  isPlaying, loadingPlay,
  \* recorder screen: useRef cells
  recordingRef, playbackRef,
  \* async calls in flight; startRecording and playRecording calls begun so
  \* far; why the last press that called nothing did so; component mounted;
  \* the state the cleanup ran in
  calls, nStart, nPlay, ignored, mounted, tornFrom,
  \* platform: permission, Audio.Recording objects, Audio.Sound objects
  perm, recState, recDur, sndState,
  \* observable side effects: the last Alert.alert, an unhandled rejection
  alerts, unhandled,
  \* formatMillis under test
  fmMs, fmOut,
  \* toggle screen (component App)
  granted, recording, appPc, appAlerts, appToggles

ctlVars == <<isRecording, isPreparing, recordingUri, recordingDurationMillis,
             isPlaying, loadingPlay, recordingRef, playbackRef,
             calls, nStart, nPlay, ignored, mounted, tornFrom,
             perm, recState, recDur, sndState, alerts, unhandled>>
fmtVars == <<fmMs, fmOut>>
appVars == <<granted, recording, appPc, appAlerts, appToggles>>
vars == <<ctlVars, fmtVars, appVars>>

\* what the steps of an async call never touch
offStage == <<mounted, tornFrom, unhandled, fmtVars, appVars>>

\* A slot of `calls`: kind of async function, position (the await it is
\* suspended on), the recordingUri captured by the closure, the handle held
\* in a local (`recording`, or the receiver of the awaited unloadAsync), and
\* the identity of the Recording or Sound the call creates.  A slot is free
\* again once its call has settled.
IdleCall ==
  [kind |-> "none", pc |-> "idle", uri |-> NoUri, h |-> NoHandle, id |-> NoHandle]

InFlight(c) == calls[c].pc # "idle"
NoneInFlight == \A c \in CallIds : ~InFlight(c)

\* a new call takes the first free slot
FreeSlot ==
  CHOOSE c \in CallIds : ~InFlight(c) /\ \A d \in 1..(c - 1) : InFlight(d)

Begin(call) ==
  /\ \E c \in CallIds : ~InFlight(c)
  /\ calls' = [calls EXCEPT ![FreeSlot] = call]

\* A state setter called after unmount is dropped by React.
SetState(cur, new) == IF mounted THEN new ELSE cur

Alert(k) == k

Settle(c) == [calls EXCEPT ![c] = IdleCall]

\* ------------------------------------------------------------------ Init
CtlInit ==
  /\ isRecording = FALSE
  /\ isPreparing = FALSE
  /\ recordingUri = NoUri
  /\ recordingDurationMillis = 0
  /\ isPlaying = FALSE
  /\ loadingPlay = FALSE
  /\ recordingRef = NoHandle
  /\ playbackRef = NoHandle
  /\ calls = [c \in CallIds |-> IdleCall]
  /\ nStart = 0
  /\ nPlay = 0
  /\ ignored = "none"
  /\ mounted = TRUE
  /\ tornFrom = "none"
  /\ perm \in {"undetermined", "granted", "denied"}
  /\ recState = [h \in RecIds |-> "none"]
  /\ recDur = [h \in RecIds |-> 0]
  /\ sndState = [s \in SndIds |-> "none"]
  /\ alerts = "none"
  /\ unhandled = FALSE

FmtIdle == fmMs = 0 /\ fmOut = << >>
AppIdle ==
  /\ granted = FALSE
  /\ recording = FALSE
  /\ appPc = "idle"
  /\ appAlerts = 0
  /\ appToggles = 0

\* ------------------------------------------------------- startRecording
\* line 39: setIsPreparing(true); line 41: await requestPermissionsAsync()
startRecording ==
  /\ nStart < MaxStart
  /\ nStart' = nStart + 1
  /\ Begin([kind |-> "start", pc |-> "perm", uri |-> NoUri, h |-> NoHandle,
            id |-> nStart + 1])
  /\ isPreparing' = SetState(isPreparing, TRUE)
  /\ UNCHANGED <<isRecording, recordingUri, recordingDurationMillis, isPlaying,
                 loadingPlay, recordingRef, playbackRef, nPlay, ignored, perm,
                 recState, recDur, sndState, alerts, offStage>>

\* The answer of Audio.requestPermissionsAsync(): the stored decision, or
\* the user's answer to the consent prompt when none is stored yet.
PermAnswers == IF perm = "undetermined" THEN {"granted", "denied"} ELSE {perm}

\* startRecording_denied with the return of line 45 left out: the call
\* goes on to line 48
startRecording_denied_NoReturn(c) ==
  /\ calls[c].kind = "start" /\ calls[c].pc = "perm"
  /\ \E a \in PermAnswers : a # "granted" /\ perm' = a
  /\ alerts' = Alert("perm")
  /\ isPreparing' = SetState(isPreparing, FALSE)
  /\ calls' = [calls EXCEPT ![c].pc = "audioMode"]
  /\ UNCHANGED <<isRecording, recordingUri, recordingDurationMillis, isPlaying,
                 loadingPlay, recordingRef, playbackRef, nStart, nPlay, ignored,
                 recState, recDur, sndState, offStage>>

\* line 42 true: lines 43-45 (alert, setIsPreparing(false), return), finally
startRecording_denied(c) ==
  /\ calls[c].kind = "start" /\ calls[c].pc = "perm"
  /\ \E a \in PermAnswers : a # "granted" /\ perm' = a
  /\ alerts' = Alert("perm")
  /\ isPreparing' = SetState(isPreparing, FALSE)
  /\ calls' = Settle(c)
  /\ UNCHANGED <<isRecording, recordingUri, recordingDurationMillis, isPlaying,
                 loadingPlay, recordingRef, playbackRef, nStart, nPlay, ignored,
                 recState, recDur, sndState, offStage>>

\* line 42 false: line 48 await Audio.setAudioModeAsync(...)
startRecording_granted(c) ==
  /\ calls[c].kind = "start" /\ calls[c].pc = "perm"
  /\ \E a \in PermAnswers : a = "granted" /\ perm' = a
  /\ calls' = [calls EXCEPT ![c].pc = "audioMode"]
  /\ UNCHANGED <<isRecording, isPreparing, recordingUri,
                 recordingDurationMillis, isPlaying, loadingPlay, recordingRef,
                 playbackRef, nStart, nPlay, ignored, recState, recDur,
                 sndState, alerts, offStage>>

\* lines 57-66: new Audio.Recording(), recordingRef.current = recording,
\* setOnRecordingStatusUpdate, await prepareToRecordAsync
startRecording_create(c) ==
  /\ calls[c].kind = "start" /\ calls[c].pc = "audioMode"
  /\ recState' = [recState EXCEPT ![calls[c].id] = "created"]
  /\ recordingRef' = calls[c].id
  /\ calls' = [calls EXCEPT ![c].pc = "prepare", ![c].h = calls[c].id]
  /\ UNCHANGED <<isRecording, isPreparing, recordingUri,
                 recordingDurationMillis, isPlaying, loadingPlay, playbackRef,
                 nStart, nPlay, ignored, perm, recDur, sndState, alerts,
                 offStage>>

\* prepareToRecordAsync resolved; line 67 await recording.startAsync()
startRecording_prepared(c) ==
  /\ calls[c].kind = "start" /\ calls[c].pc = "prepare"
  /\ recState[calls[c].h] = "created"
  /\ recState' = [recState EXCEPT ![calls[c].h] = "prepared"]
  /\ calls' = [calls EXCEPT ![c].pc = "startAsync"]
  /\ UNCHANGED <<isRecording, isPreparing, recordingUri,
                 recordingDurationMillis, isPlaying, loadingPlay, recordingRef,
                 playbackRef, nStart, nPlay, ignored, perm, recDur, sndState,
                 alerts, offStage>>

\* startRecording_started with line 69 (setRecordingUri(null)) left out
startRecording_started_KeepUri(c) ==
  /\ calls[c].kind = "start" /\ calls[c].pc = "startAsync"
  /\ recState[calls[c].h] = "prepared"
  /\ recState' = [recState EXCEPT ![calls[c].h] = "recording"]
  /\ isRecording' = SetState(isRecording, TRUE)
  /\ isPreparing' = SetState(isPreparing, FALSE)
  /\ calls' = Settle(c)
  /\ UNCHANGED <<recordingUri, recordingDurationMillis, isPlaying, loadingPlay,
                 recordingRef, playbackRef, nStart, nPlay, ignored, perm,
                 recDur, sndState, alerts, offStage>>

\* startAsync resolved; lines 68-69, finally line 74
startRecording_started(c) ==
  /\ calls[c].kind = "start" /\ calls[c].pc = "startAsync"
  /\ recState[calls[c].h] = "prepared"
  /\ recState' = [recState EXCEPT ![calls[c].h] = "recording"]
  /\ isRecording' = SetState(isRecording, TRUE)
  /\ recordingUri' = SetState(recordingUri, NoUri)
  /\ isPreparing' = SetState(isPreparing, FALSE)
  /\ calls' = Settle(c)
  /\ UNCHANGED <<recordingDurationMillis, isPlaying, loadingPlay, recordingRef,
                 playbackRef, nStart, nPlay, ignored, perm, recDur, sndState,
                 alerts, offStage>>

\* any awaited promise of lines 41-67 rejected: catch lines 70-72 (alert
\* "Recording failed") and finally line 74
startRecording_failed(c) ==
  /\ calls[c].kind = "start"
  /\ calls[c].pc \in {"perm", "audioMode", "prepare", "startAsync"}
  /\ alerts' = Alert("start")
  /\ isPreparing' = SetState(isPreparing, FALSE)
  /\ calls' = Settle(c)
  /\ UNCHANGED <<isRecording, recordingUri, recordingDurationMillis, isPlaying,
                 loadingPlay, recordingRef, playbackRef, nStart, nPlay, ignored,
                 perm, recState, recDur, sndState, offStage>>

\* the status callback of lines 60-64, called with status.isRecording true
\* and the recorder's elapsed time, which starts at 0 and does not decrease
onRecordingStatusUpdate(h) ==
  /\ recState[h] = "recording"
  /\ \E d \in {recDur[h], recDur[h] + 1} :
       /\ d <= MaxDur
       /\ recDur' = [recDur EXCEPT ![h] = d]
       /\ recordingDurationMillis' = SetState(recordingDurationMillis, d)
  /\ UNCHANGED <<isRecording, isPreparing, recordingUri, isPlaying, loadingPlay,
                 recordingRef, playbackRef, calls, nStart, nPlay, ignored, perm,
                 recState, sndState, alerts, offStage>>

\* -------------------------------------------------------- stopRecording
\* lines 80-81 with recordingRef.current null: return, then finally line 94
stopRecording_noHandle ==
  /\ recordingRef = NoHandle
  /\ ignored' = "noHandle"
  /\ isPreparing' = SetState(isPreparing, FALSE)
  /\ UNCHANGED <<isRecording, recordingUri, recordingDurationMillis, isPlaying,
                 loadingPlay, recordingRef, playbackRef, calls, nStart, nPlay,
                 perm, recState, recDur, sndState, alerts, offStage>>

\* lines 80-84: const recording = recordingRef.current,
\* setIsPreparing(true), await recording.stopAndUnloadAsync()
stopRecording_begin ==
  /\ recordingRef # NoHandle
  /\ Begin([kind |-> "stop", pc |-> "stopAndUnload", uri |-> NoUri,
            h |-> recordingRef, id |-> NoHandle])
  /\ isPreparing' = SetState(isPreparing, TRUE)
  /\ UNCHANGED <<isRecording, recordingUri, recordingDurationMillis, isPlaying,
                 loadingPlay, recordingRef, playbackRef, nStart, nPlay, ignored,
                 perm, recState, recDur, sndState, alerts, offStage>>

stopRecording == stopRecording_noHandle \/ stopRecording_begin

\* recording.getURI() ?? null, line 85: the file the recorder was prepared
\* with, null for a recorder that was never prepared
getURI(h) == IF recState[h] \in {"none", "created"} THEN NoUri ELSE h

\* stopAndUnloadAsync resolves only on a recorder that is prepared or
\* recording, and unloads it.
CanStopAndUnload(h) == recState[h] \in {"prepared", "recording"}

\* stopRecording_stopped with line 89 (recordingRef.current = null) left out
stopRecording_stopped_KeepRef(c) ==
  /\ calls[c].kind = "stop" /\ calls[c].pc = "stopAndUnload"
  /\ CanStopAndUnload(calls[c].h)
  /\ recState' = [recState EXCEPT ![calls[c].h] = "unloaded"]
  /\ recordingUri' = SetState(recordingUri, getURI(calls[c].h))
  /\ isRecording' = SetState(isRecording, FALSE)
  /\ isPreparing' = SetState(isPreparing, FALSE)
  /\ calls' = Settle(c)
  /\ UNCHANGED <<recordingDurationMillis, isPlaying, loadingPlay, recordingRef,
                 playbackRef, nStart, nPlay, ignored, perm, recDur, sndState,
                 alerts, offStage>>

\* stopAndUnloadAsync resolved: lines 85-89 and finally line 94
stopRecording_stopped(c) ==
  /\ calls[c].kind = "stop" /\ calls[c].pc = "stopAndUnload"
  /\ CanStopAndUnload(calls[c].h)
  /\ recState' = [recState EXCEPT ![calls[c].h] = "unloaded"]
  /\ recordingUri' = SetState(recordingUri, getURI(calls[c].h))
  /\ isRecording' = SetState(isRecording, FALSE)
  /\ recordingRef' = NoHandle
  /\ isPreparing' = SetState(isPreparing, FALSE)
  /\ calls' = Settle(c)
  /\ UNCHANGED <<recordingDurationMillis, isPlaying, loadingPlay, playbackRef,
                 nStart, nPlay, ignored, perm, recDur, sndState, alerts,
                 offStage>>

\* stopRecording_failed with the finally block of lines 93-95 left out
stopRecording_failed_NoFinally(c) ==
  /\ calls[c].kind = "stop" /\ calls[c].pc = "stopAndUnload"
  /\ alerts' = Alert("stop")
  /\ calls' = Settle(c)
  /\ UNCHANGED <<isRecording, isPreparing, recordingUri,
                 recordingDurationMillis, isPlaying, loadingPlay, recordingRef,
                 playbackRef, nStart, nPlay, ignored, perm, recState, recDur,
                 sndState, offStage>>

\* stopAndUnloadAsync rejected: catch lines 90-92 and finally line 94
stopRecording_failed(c) ==
  /\ calls[c].kind = "stop" /\ calls[c].pc = "stopAndUnload"
  /\ alerts' = Alert("stop")
  /\ isPreparing' = SetState(isPreparing, FALSE)
  /\ calls' = Settle(c)
  /\ UNCHANGED <<isRecording, recordingUri, recordingDurationMillis, isPlaying,
                 loadingPlay, recordingRef, playbackRef, nStart, nPlay, ignored,
                 perm, recState, recDur, sndState, offStage>>

\* -------------------------------------------------------- playRecording
\* line 99 (guard), line 100, then lines 103-104 (await unloadAsync of the
\* sound in playbackRef) or line 108 (await Sound.createAsync)
playRecording ==
  /\ recordingUri # NoUri
  /\ nPlay < MaxPlay
  /\ nPlay' = nPlay + 1
  /\ Begin([kind |-> "play",
            pc |-> IF playbackRef # NoHandle THEN "unloadPrev" ELSE "create",
            uri |-> recordingUri, h |-> playbackRef, id |-> nPlay + 1])
  /\ loadingPlay' = SetState(loadingPlay, TRUE)
  /\ UNCHANGED <<isRecording, isPreparing, recordingUri,
                 recordingDurationMillis, isPlaying, recordingRef, playbackRef,
                 nStart, ignored, perm, recState, recDur, sndState, alerts,
                 offStage>>

\* The awaited promise of a playRecording call resolved.
\* At line 104 (unloadAsync of the previous sound): line 105, then line 108
\* await Sound.createAsync.  At line 108: lines 109-120 (the sound is loaded
\* and playing, its status callback registered) and finally line 126.
playRecording_resolved(c) ==
  /\ calls[c].kind = "play" /\ calls[c].pc \in {"unloadPrev", "create"}
  /\ IF calls[c].pc = "unloadPrev"
       THEN /\ sndState' = [sndState EXCEPT ![calls[c].h] = "unloaded"]
            /\ playbackRef' = NoHandle
            /\ calls' = [calls EXCEPT ![c].pc = "create", ![c].h = NoHandle]
            /\ UNCHANGED <<isPlaying, loadingPlay>>
       ELSE /\ sndState' = [sndState EXCEPT ![calls[c].id] = "loaded"]
            /\ playbackRef' = calls[c].id
            /\ isPlaying' = SetState(isPlaying, TRUE)
            /\ loadingPlay' = SetState(loadingPlay, FALSE)
            /\ calls' = Settle(c)
  /\ UNCHANGED <<isRecording, isPreparing, recordingUri,
                 recordingDurationMillis, recordingRef, nStart, nPlay, ignored,
                 perm, recState, recDur, alerts, offStage>>

\* playRecording_failed with the finally block of lines 125-127 left out
playRecording_failed_NoFinally(c) ==
  /\ calls[c].kind = "play" /\ calls[c].pc \in {"unloadPrev", "create"}
  /\ alerts' = Alert("play")
  /\ isPlaying' = SetState(isPlaying, FALSE)
  /\ calls' = Settle(c)
  /\ UNCHANGED <<isRecording, isPreparing, recordingUri,
                 recordingDurationMillis, loadingPlay, recordingRef,
                 playbackRef, nStart, nPlay, ignored, perm, recState, recDur,
                 sndState, offStage>>

\* unloadAsync or createAsync rejected: catch lines 121-124, finally 126
playRecording_failed(c) ==
  /\ calls[c].kind = "play" /\ calls[c].pc \in {"unloadPrev", "create"}
  /\ alerts' = Alert("play")
  /\ isPlaying' = SetState(isPlaying, FALSE)
  /\ loadingPlay' = SetState(loadingPlay, FALSE)
  /\ calls' = Settle(c)
  /\ UNCHANGED <<isRecording, isPreparing, recordingUri,
                 recordingDurationMillis, recordingRef, playbackRef, nStart,
                 nPlay, ignored, perm, recState, recDur, sndState, offStage>>

\* onPlaybackStatusUpdate with line 116 (setIsPlaying(false)) left out
onPlaybackStatusUpdate_KeepPlaying(s) ==
  /\ sndState[s] = "loaded"
  /\ \E ok \in BOOLEAN :
       sndState' = [sndState EXCEPT ![s] = IF ok THEN "unloaded" ELSE "finished"]
  /\ playbackRef' = NoHandle
  /\ UNCHANGED <<isRecording, isPreparing, recordingUri,
                 recordingDurationMillis, isPlaying, loadingPlay, recordingRef,
                 calls, nStart, nPlay, ignored, perm, recState, recDur, alerts,
                 offStage>>

\* the status callback of lines 112-120, called with didJustFinish true:
\* setIsPlaying(false), sound.unloadAsync().catch(() => {}) whose rejection
\* is swallowed, playbackRef.current = null
onPlaybackStatusUpdate(s) ==
  /\ sndState[s] = "loaded"
  /\ isPlaying' = SetState(isPlaying, FALSE)
  /\ \E ok \in BOOLEAN :
       sndState' = [sndState EXCEPT ![s] = IF ok THEN "unloaded" ELSE "finished"]
  /\ playbackRef' = NoHandle
  /\ UNCHANGED <<isRecording, isPreparing, recordingUri,
                 recordingDurationMillis, loadingPlay, recordingRef, calls,
                 nStart, nPlay, ignored, perm, recState, recDur, alerts,
                 offStage>>

\* ------------------------------------------------------------ the screen
\* Record/Stop Pressable, lines 143-152: never disabled,
\* onPress={isRecording ? stopRecording : startRecording}
RecordPress ==
  /\ mounted
  /\ IF isRecording THEN stopRecording ELSE startRecording

\* PlayDisabled without the isPlaying and loadingPlay terms
PlayDisabled_NoBusy == recordingUri = NoUri

\* Play Pressable, line 156: disabled={!recordingUri || isPlaying || loadingPlay}
PlayDisabled == recordingUri = NoUri \/ isPlaying \/ loadingPlay

\* Play Pressable, lines 154-164: a press while disabled calls nothing
PlayPress ==
  /\ mounted
  /\ IF PlayDisabled
       THEN /\ ignored' = (IF isPlaying \/ loadingPlay THEN "busy" ELSE "noFile")
            /\ UNCHANGED <<isRecording, isPreparing, recordingUri,
                           recordingDurationMillis, isPlaying, loadingPlay,
                           recordingRef, playbackRef, calls, nStart, nPlay,
                           perm, recState, recDur, sndState, alerts, offStage>>
       ELSE playRecording

\* useEffect cleanup, lines 16-28.  stopAndUnloadAsync() is not awaited and
\* has no rejection handler: the try/catch around the call catches nothing
\* of an async function, so a rejection is an unhandled one.  The rejection
\* of unloadAsync() is swallowed by .catch(() => {}).
cleanup ==
  /\ mounted
  /\ mounted' = FALSE
  /\ tornFrom' = IF isRecording /\ recordingRef # NoHandle /\ NoneInFlight
                   THEN "recording" ELSE "other"
  /\ IF recordingRef # NoHandle
       THEN \/ /\ CanStopAndUnload(recordingRef)
               /\ recState' = [recState EXCEPT ![recordingRef] = "unloaded"]
               /\ UNCHANGED unhandled
            \/ /\ unhandled' = TRUE
               /\ UNCHANGED recState
       ELSE UNCHANGED <<recState, unhandled>>
  /\ recordingRef' = NoHandle
  /\ IF playbackRef # NoHandle
       THEN \E ok \in BOOLEAN :
              sndState' = IF ok THEN [sndState EXCEPT ![playbackRef] = "unloaded"]
                                ELSE sndState
       ELSE UNCHANGED sndState
  /\ playbackRef' = NoHandle
  /\ UNCHANGED <<isRecording, isPreparing, recordingUri,
                 recordingDurationMillis, isPlaying, loadingPlay, calls, nStart,
                 nPlay, ignored, perm, recDur, alerts, fmtVars, appVars>>

\* ------------------------------------------------- the recorder screen
Init == CtlInit /\ FmtIdle /\ AppIdle

Next ==
  \/ RecordPress
  \/ PlayPress
  \/ cleanup
  \/ \E c \in CallIds : startRecording_denied(c)
  \/ \E c \in CallIds : startRecording_granted(c)
  \/ \E c \in CallIds : startRecording_create(c)
  \/ \E c \in CallIds : startRecording_prepared(c)
  \/ \E c \in CallIds : startRecording_started(c)
  \/ \E c \in CallIds : startRecording_failed(c)
  \/ \E c \in CallIds : stopRecording_stopped(c)
  \/ \E c \in CallIds : stopRecording_failed(c)
  \/ \E c \in CallIds : playRecording_resolved(c)
  \/ \E c \in CallIds : playRecording_failed(c)
  \/ \E h \in RecIds : onRecordingStatusUpdate(h)
  \/ \E s \in SndIds : onPlaybackStatusUpdate(s)

Spec == Init /\ [][Next]_vars

TypeOK ==
  /\ isRecording \in BOOLEAN /\ isPreparing \in BOOLEAN
  /\ isPlaying \in BOOLEAN /\ loadingPlay \in BOOLEAN
  /\ recordingUri \in {NoUri} \cup RecIds
  /\ recordingDurationMillis \in 0..MaxDur
  /\ recordingRef \in {NoHandle} \cup RecIds
  /\ playbackRef \in {NoHandle} \cup SndIds
  /\ nStart \in 0..MaxStart /\ nPlay \in 0..MaxPlay
  /\ ignored \in IgnoreReasons /\ alerts \in AlertKinds

\* --------------------------------------------------------- formatMillis
DigitChars == <<"0", "1", "2", "3", "4", "5", "6", "7", "8", "9">>

\* Number.prototype.toString() of a non-negative integer, as a sequence of
\* characters
RECURSIVE toString(_)
toString(n) ==
  IF n < 10 THEN <<DigitChars[n + 1]>>
            ELSE toString(n \div 10) \o <<DigitChars[(n % 10) + 1]>>

\* String.prototype.padStart(targetLength, padString), one-character pad
RECURSIVE padStart(_, _, _)
padStart(str, targetLength, pad) ==
  IF Len(str) >= targetLength THEN str
                              ELSE padStart(<<pad>> \o str, targetLength, pad)

\* formatMillis without the padStart of line 35
formatMillis_NoPad(ms) ==
  LET totalSec == ms \div 1000
      m == totalSec \div 60
      s == totalSec % 60
  IN  toString(m) \o <<":">> \o toString(s)

\* lines 31-36
formatMillis(ms) ==
  LET totalSec == ms \div 1000
      m == totalSec \div 60
      s == totalSec % 60
  IN  toString(m) \o <<":">> \o padStart(toString(s), 2, "0")

\* the status label of line 139 formats recordingDurationMillis
FormatInputs == {sec * 1000 + f : sec \in 0..MaxSec, f \in {0, 999}}

CtlIdle == CtlInit /\ perm = "undetermined"

InitFormat == CtlIdle /\ AppIdle /\ fmMs \in FormatInputs /\ fmOut = << >>

FormatCall ==
  /\ fmOut = << >>
  /\ fmOut' = formatMillis(fmMs)
  /\ UNCHANGED <<fmMs, ctlVars, appVars>>

NextFormat == FormatCall

SpecFormat == InitFormat /\ [][NextFormat]_vars

\* ----------------------------------------------- toggle screen (App)
\* useEffect of lines 9-14 has called Audio.requestPermissionsAsync()
InitApp ==
  /\ CtlIdle /\ FmtIdle
  /\ granted = FALSE
  /\ recording = FALSE
  /\ appPc = "requesting"
  /\ appAlerts = 0
  /\ appToggles = 0

\* lines 11-12: the request resolved, setGranted(status === 'granted')
App_permissionResolved ==
  /\ appPc = "requesting"
  /\ \E status \in {"granted", "denied", "undetermined"} :
       granted' = (status = "granted")
  /\ appPc' = "resolved"
  /\ UNCHANGED <<recording, appAlerts, appToggles, ctlVars, fmtVars>>

\* line 11: the request rejected, line 12 is not reached
App_permissionRejected ==
  /\ appPc = "requesting"
  /\ appPc' = "rejected"
  /\ UNCHANGED <<granted, recording, appAlerts, appToggles, ctlVars, fmtVars>>

\* toggleRecording without the guard of line 17
toggleRecording_NoGuard ==
  /\ appToggles < MaxToggles
  /\ appToggles' = appToggles + 1
  /\ recording' = ~recording
  /\ UNCHANGED <<granted, appPc, appAlerts, ctlVars, fmtVars>>

\* lines 16-19, called by the Button's onPress
toggleRecording ==
  /\ appToggles < MaxToggles
  /\ appToggles' = appToggles + 1
  /\ IF ~granted
       THEN appAlerts' = appAlerts + 1 /\ UNCHANGED recording
       ELSE recording' = ~recording /\ UNCHANGED appAlerts
  /\ UNCHANGED <<granted, appPc, ctlVars, fmtVars>>

NextApp ==
  \/ App_permissionResolved
  \/ App_permissionRejected
  \/ toggleRecording

SpecApp == InitApp /\ [][NextApp]_vars

\* ================================================================ claims
StartsInFlight == {c \in CallIds : calls[c].kind = "start"}
LiveRecordings == {h \in RecIds : recState[h] \in {"created", "prepared", "recording"}}

\* a stopRecording call settles in this step and its recorder was not
\* unloaded by it: stopAndUnloadAsync rejected
StopFailedStep(c) ==
  /\ calls[c].kind = "stop"
  /\ calls'[c].pc = "idle"
  /\ recState'[calls[c].h] = recState[calls[c].h]

\* a stopRecording call settles in this step and its recorder was unloaded
\* by it: stopAndUnloadAsync resolved
StopSucceededStep(c) ==
  /\ calls[c].kind = "stop"
  /\ calls'[c].pc = "idle"
  /\ recState[calls[c].h] # "unloaded"
  /\ recState'[calls[c].h] = "unloaded"

\* a startRecording call settles in this step from the permission request,
\* and not through the catch block: the request resolved, not "granted"
DeniedStep(c) ==
  /\ calls[c].kind = "start" /\ calls[c].pc = "perm"
  /\ calls'[c].pc = "idle"
  /\ alerts' # "start"

\* C1: on the mounted recorder screen, whenever no startRecording,
\* stopRecording or playRecording call is in flight, the controller is in no
\* transient state: isPreparing and loadingPlay are both false.
C1_NoTransientWhenSettled ==
  (mounted /\ NoneInFlight) => (~isPreparing /\ ~loadingPlay)

\* C1 witness: a start, a stop and a play were made, the last alert is that
\* of a failed stop, and every call has settled.
C1_Witness ==
  mounted /\ NoneInFlight /\ nStart >= 1 /\ nPlay >= 1 /\ alerts = "stop"

\* C2: a press of Play while isPlaying or loadingPlay is true is a no-op:
\* isPlaying, loadingPlay, recordingUri, the playback slot, the set of calls
\* and the sounds are unchanged (no playRecording call, no new sound).
C2_PlayWhileBusyIsNoOp ==
  [][(PlayPress /\ (isPlaying \/ loadingPlay))
       => UNCHANGED <<isPlaying, loadingPlay, recordingUri, playbackRef,
                      calls, nPlay, sndState>>]_vars

\* C2 witness: Play was pressed during a playback, which still goes on.
C2_Witness ==
  mounted /\ ignored = "busy" /\ isPlaying /\ playbackRef # NoHandle

C4_SecondStartRejected ==
  /\ Cardinality(StartsInFlight) <= 1
  /\ mounted => \A h \in LiveRecordings : recordingRef = h

\* C5: after a stop() that fails, isRecording is false and the recording
\* handle slot is empty.
C5_FailedStopReturnsToIdle ==
  [][\A c \in CallIds :
       (mounted /\ StopFailedStep(c))
         => (~isRecording' /\ recordingRef' = NoHandle)]_vars

\* C6: after a stop() that succeeds, recordingUri is not null, isRecording
\* is false and the recording handle slot is empty.
C6_SuccessfulStopHasFile ==
  [][\A c \in CallIds :
       (mounted /\ StopSucceededStep(c))
         => /\ recordingUri' # NoUri
            /\ ~isRecording'
            /\ recordingRef' = NoHandle]_vars

\* C6 witness: a stop succeeded and the screen shows the recorded file.
C6_Witness ==
  /\ mounted /\ NoneInFlight /\ recordingUri # NoUri /\ ~isRecording
  /\ \E h \in RecIds : recState[h] = "unloaded"

\* C7: the cleanup run while a recording is active lets no rejection escape,
\* and afterwards the recording is unloaded and both slots are empty.
C7_TeardownMidRecordingIsClean ==
  tornFrom = "recording" =>
    /\ ~unhandled
    /\ recordingRef = NoHandle /\ playbackRef = NoHandle
    /\ LiveRecordings = {}

IsDigits(str) == \A i \in 1..Len(str) : \E d \in 1..10 : DigitChars[d] = str[i]

\* the number a sequence of decimal digits denotes
RECURSIVE ParseNat(_)
ParseNat(str) ==
  IF Len(str) = 0 THEN 0
  ELSE 10 * ParseNat(SubSeq(str, 1, Len(str) - 1))
         + ((CHOOSE d \in 1..10 : DigitChars[d] = str[Len(str)]) - 1)

\* C9: formatMillis(ms) is minutes ":" seconds, minutes = floor(ms/1000) div
\* 60 without padding, seconds = floor(ms/1000) mod 60 as exactly two digits;
\* 0 gives "0:00", 61000 gives "1:01", 600000 gives "10:00".
C9_FormatMillis ==
  fmOut # << >> =>
    LET n == Len(fmOut)
        mins == SubSeq(fmOut, 1, n - 3)
        secs == SubSeq(fmOut, n - 1, n)
    IN  /\ n >= 4
        /\ fmOut[n - 2] = ":"
        /\ IsDigits(mins) /\ IsDigits(secs)
        /\ ParseNat(mins) = (fmMs \div 1000) \div 60
        /\ (Len(mins) > 1 => mins[1] # "0")
        /\ ParseNat(secs) = (fmMs \div 1000) % 60
        /\ (fmMs = 0 => fmOut = <<"0", ":", "0", "0">>)
        /\ (fmMs = 61000 => fmOut = <<"1", ":", "0", "1">>)
        /\ (fmMs = 600000 => fmOut = <<"1", "0", ":", "0", "0">>)

\* C9 witness: 61000 ms was formatted, with a padded seconds field.
C9_Witness == fmMs = 61000 /\ fmOut = <<"1", ":", "0", "1">>

\* C10: on the toggle screen recording implies granted, and a toggle while
\* granted is false (also before the permission request has resolved) leaves
\* recording unchanged.
C10_RecordingGatedOnPermission ==
  /\ [](recording => granted)
  /\ [][(toggleRecording /\ ~granted) => recording' = recording]_vars

\* C10 witness: a toggle was refused before the permission arrived, and a
\* later one, after the grant, started the recording.
C10_Witness == recording /\ granted /\ appAlerts >= 1

\* sounds that were loaded and are not unloaded: "finished" is a sound whose
\* playback ended and whose unloadAsync() was rejected
LiveSounds == {s \in SndIds : sndState[s] \in {"loaded", "finished"}}

\* C11: at most one playback handle is live (created and not yet unloaded)
\* in every reachable state; a new one is created only after the previous
\* one has been released.
C11_OnePlaybackHandle == Cardinality(LiveSounds) <= 1

\* a startRecording call that has created its recorder settles in this step
\* without starting it: prepareToRecordAsync or startAsync rejected
StartFailedAfterCreateStep(c) ==
  /\ calls[c].kind = "start" /\ calls[c].h # NoHandle
  /\ calls'[c].pc = "idle"
  /\ recState'[calls[c].h] # "recording"

\* C12: when a start() fails after its recording handle was created, then
\* once the call has settled isRecording is false, the recording handle slot
\* is empty and the handle the call created is released.
C12_FailedStartReleasesHandle ==
  [][\A c \in CallIds :
       (mounted /\ StartFailedAfterCreateStep(c))
         => /\ ~isRecording'
            /\ recordingRef' = NoHandle
            /\ calls[c].h \notin LiveRecordings']_vars

\* a playRecording call creates its sound in this step
SoundCreatedStep(c) ==
  /\ calls[c].kind = "play" /\ calls[c].pc = "create"
  /\ sndState'[calls[c].id] = "loaded"
  /\ sndState[calls[c].id] # "loaded"

\* C13: a playback session and an active recording never coexist:
\* isRecording is never true together with isPlaying or loadingPlay, and a
\* playback handle is created only while recordingUri is not null and no
\* recording is active or being prepared.
C13_NoPlaybackWhileRecording ==
  /\ [](mounted => ~(isRecording /\ (isPlaying \/ loadingPlay)))
  /\ [][\A c \in CallIds :
          (mounted /\ SoundCreatedStep(c))
            => /\ recordingUri # NoUri
               /\ ~isRecording /\ ~isPreparing]_vars

\* the stopRecording calls suspended on stopAndUnloadAsync() of recorder h
StopsInFlight(h) == {c \in CallIds : calls[c].kind = "stop" /\ calls[c].h = h}

\* C14: a stop intent made while an earlier stopRecording call on the same
\* recording is in flight is rejected: stopAndUnloadAsync is invoked at most
\* once on a recording handle, so never two stopRecording calls wait on the
\* same recorder.
C14_DuplicateStopRejected ==
  \A h \in RecIds : Cardinality(StopsInFlight(h)) <= 1

\* C15: the cleanup is safe while startRecording or playRecording calls are
\* suspended: once it has run and every call in flight has settled, neither
\* handle slot holds a handle.
C15_TeardownLeavesNoHandle ==
  (~mounted /\ NoneInFlight) =>
    (recordingRef = NoHandle /\ playbackRef = NoHandle)

\* C16: on the mounted screen, from a successful stop until the next start
\* (the file is there and no recording is active), no step changes
\* recordingDurationMillis: no status callback, no play intent, no playback
\* event.
C16_DurationRetainedAfterStop ==
  [][(mounted /\ ~isRecording /\ recordingUri # NoUri)
       => recordingDurationMillis' = recordingDurationMillis]_vars

\* a startRecording call settles in this step with its recorder started
StartSucceededStep(c) ==
  /\ calls[c].kind = "start" /\ calls[c].pc = "startAsync"
  /\ calls'[c].pc = "idle"
  /\ recState'[calls[c].h] = "recording"

\* C17: in every recording session, also one made after an earlier
\* recording was stopped, the displayed duration is 0 when the start
\* succeeds, so no value of an earlier session is shown while isRecording is
\* true, and it does not decrease while isRecording stays true.  Stated for
\* sessions that do not overlap: one startRecording call, one live recorder.
C17_DurationStartsAtZero ==
  [][/\ \A c \in CallIds :
          (/\ mounted /\ StartSucceededStep(c)
           /\ StartsInFlight = {c} /\ LiveRecordings = {calls[c].h})
            => recordingDurationMillis' = 0
     /\ (/\ mounted /\ isRecording /\ isRecording'
         /\ StartsInFlight = {} /\ Cardinality(LiveRecordings) = 1)
          => recordingDurationMillis' >= recordingDurationMillis]_vars

\* a playRecording call settles in this step without a loaded sound of its
\* own: unloadAsync of the previous sound or createAsync rejected
PlayFailedStep(c) ==
  /\ calls[c].kind = "play"
  /\ calls'[c].pc = "idle"
  /\ sndState'[calls[c].id] # "loaded"

C19_RecordingHasNoFile ==
  /\ [](isRecording => recordingUri = NoUri)
  /\ [][\A c \in CallIds :
          (mounted /\ StartSucceededStep(c))
            => (isRecording' /\ recordingUri' = NoUri)]_vars

\* C19 witness: a second recording is active on the mounted screen after a
\* first one was stopped with a file, and the file reference is gone.
C19_Witness ==
  /\ mounted /\ isRecording /\ recordingUri = NoUri
  /\ \E h \in RecIds : recState[h] = "unloaded"
  /\ recordingRef # NoHandle /\ recState[recordingRef] = "recording"

====
